---- MODULE Spec2Model ----
(***************************************************************************)
(* Model of the ai-council debate engine: panel selection (src/cli.py),    *)
(* the per-backend call with its timeout retry and the round barrier       *)
(* (src/debate.py), and the final synthesis call (src/synthesis.py).       *)
(*                                                                         *)
(* One run of _run_single is modelled.  The asyncio tasks of a round are   *)
(* the interleaved actions FirstAttemptSettles / RetrySettles; everything  *)
(* a coroutine does between two awaits is one atomic step.                 *)
(***************************************************************************)
EXTENDS Integers, Sequences, FiniteSets, TLC

\* ------------------------------------------------------------------------
\* Bounds of the model
\* ------------------------------------------------------------------------
\* largest --rounds value explored
MaxRounds == 2
\* the --rounds value of the runs explored for the critique prompts
CritiqueRounds == 3
\* longest panel list given to the selection functions on their own
MaxPanelLen == 3
\* most replies given to the anonymizer on its own
MaxReplies == 2
\* most files found in the inbox
MaxFiles == 2
\* longest --models argument explored, in pieces (a name, a padded name or
\* a comma)
MaxArgLen == 3

\* ------------------------------------------------------------------------
\* Configuration (settings.yaml as loaded by config_loader.load_config)
\* ------------------------------------------------------------------------
None == "None"

\* no exception / no DebateResult yet
NoError == [type |-> "None", round |-> 0]

NoResult == [rounds |-> <<>>, synthesis |-> <<>>, synthesizer |-> None,
             panel_mode |-> None, synthesizer_is_participant |-> FALSE]

\* config.models keys, in file order; every one has a class in PROVIDER_CLASSES
Backends == <<"claude", "gemini", "openai", "grok">>

BackendNames == {Backends[i] : i \in DOMAIN Backends}

\* DefaultsConfig.default_panel / full_panel
default_panel == <<"claude", "gemini", "openai">>

full_panel == <<"claude", "gemini", "openai", "grok">>

\* DefaultsConfig.max_rounds: the configured ceiling on the number of rounds
max_rounds == 1

\* ModelConfig.timeout_sec of each backend as loaded (seconds, int)
ConfigTimeout == [b \in BackendNames |->
                    CASE b = "claude" -> 2
                      [] b = "gemini" -> 3
                      [] b = "openai" -> 4
                      [] OTHER        -> 5]

\* ModelConfig.model
ModelOf(b) == CASE b = "claude" -> "claude-model"
                [] b = "gemini" -> "gemini-model"
                [] b = "openai" -> "openai-model"
                [] OTHER        -> "grok-model"

\* debate._MIN_QUALITY_RESPONSES
_MIN_QUALITY_RESPONSES == 3

\* ------------------------------------------------------------------------
\* Sequence helpers
\* ------------------------------------------------------------------------
Range(s) == {s[i] : i \in DOMAIN s}

RECURSIVE SelectIdx(_, _, _)
\* the elements s[i], i in order, for which the index i is in the set keep
SelectIdx(s, keep, i) ==
    IF i > Len(s) THEN <<>>
    ELSE (IF i \in keep THEN <<s[i]>> ELSE <<>>) \o SelectIdx(s, keep, i + 1)

RECURSIVE FilterSeq(_, _)
\* [x for x in s if x in keep]
FilterSeq(s, keep) ==
    IF s = <<>> THEN <<>>
    ELSE (IF Head(s) \in keep THEN <<Head(s)>> ELSE <<>>) \o FilterSeq(Tail(s), keep)

RECURSIVE RemoveAll(_, _)
\* [x for x in s if x != v]
RemoveAll(s, v) ==
    IF s = <<>> THEN <<>>
    ELSE (IF Head(s) # v THEN <<Head(s)>> ELSE <<>>) \o RemoveAll(Tail(s), v)

\* sequences over S of length 0..n
SeqsUpTo(S, n) == UNION {[1..k -> S] : k \in 0..n}

\* ------------------------------------------------------------------------
\* Panel selection (src/cli.py)
\* ------------------------------------------------------------------------
\* A --models argument is a string; it is modelled as a sequence of tokens,
\* each a backend name, a comma or a blank.  The empty sequence stands for
\* both None and "", which the truth test of _determine_panel treats alike.
\* The arguments explored are written from these pieces: a bare name, a name
\* padded with blanks, a comma.
ArgPieces == {<<"claude">>, <<" ", "gemini", " ">>, <<",">>}

RECURSIVE Flatten(_)
\* the token sequence spelled by a sequence of pieces
Flatten(ps) == IF ps = <<>> THEN <<>> ELSE Head(ps) \o Flatten(Tail(ps))

RECURSIVE SplitComma(_, _)
\* str.split(","): the fields between commas; cur is the field being read
SplitComma(s, cur) ==
    IF s = <<>> THEN <<cur>>
    ELSE IF Head(s) = "," THEN <<cur>> \o SplitComma(Tail(s), <<>>)
    ELSE SplitComma(Tail(s), Append(cur, Head(s)))

RECURSIVE LStrip(_)
LStrip(f) == IF f # <<>> /\ Head(f) = " " THEN LStrip(Tail(f)) ELSE f

RECURSIVE RStrip(_)
RStrip(f) == IF f # <<>> /\ f[Len(f)] = " " THEN RStrip(SubSeq(f, 1, Len(f) - 1)) ELSE f

\* str.strip() of one field, read back as a name: a single name token is that
\* name, the empty field is the empty name, anything else (two names glued or
\* separated by an inner blank) is a name no backend has.
StripName(f) ==
    LET t == RStrip(LStrip(f))
    IN  IF t = <<>> THEN "" ELSE IF Len(t) = 1 THEN t[1] ELSE "?"

\* --full looked at before --models
_determine_panel_full_first(m_arg, f_flag) ==
    IF f_flag THEN [names |-> full_panel, mode |-> "full"]
    ELSE IF m_arg # <<>>
    THEN [names |-> [i \in DOMAIN SplitComma(m_arg, <<>>) |->
                        StripName(SplitComma(m_arg, <<>>)[i])],
          mode  |-> "custom"]
    ELSE [names |-> default_panel, mode |-> "default"]

_determine_panel(m_arg, f_flag) ==
    IF m_arg # <<>>
    THEN [names |-> [i \in DOMAIN SplitComma(m_arg, <<>>) |->
                        StripName(SplitComma(m_arg, <<>>)[i])],
          mode  |-> "custom"]
    ELSE IF f_flag THEN [names |-> full_panel, mode |-> "full"]
    ELSE [names |-> default_panel, mode |-> "default"]

\* the synthesizer taken out whatever is left
_exclude_synthesizer_always(p_names, s_name, providers) == RemoveAll(p_names, s_name)

_exclude_synthesizer_from_panel(p_names, s_name, providers) ==
    IF s_name \notin Range(p_names) THEN p_names
    ELSE LET remaining == RemoveAll(p_names, s_name)
             available_remaining == FilterSeq(remaining, Range(providers))
         IN  IF Len(available_remaining) >= 2 THEN remaining ELSE p_names

\* the preferred backend whenever it is available
_pick_preferred_first(providers, p_names, preferred) ==
    LET not_in_panel == FilterSeq(providers, Range(providers) \ Range(p_names))
    IN  IF preferred \in Range(providers)
        THEN [provider |-> preferred, is_participant |-> preferred \in Range(p_names)]
        ELSE IF not_in_panel # <<>>
             THEN [provider |-> not_in_panel[1], is_participant |-> FALSE]
             ELSE [provider |-> providers[1], is_participant |-> TRUE]

\* the first backend outside the panel, preferred or not
_pick_first_outside(providers, p_names, preferred) ==
    LET not_in_panel == FilterSeq(providers, Range(providers) \ Range(p_names))
    IN  IF not_in_panel # <<>>
        THEN [provider |-> not_in_panel[1], is_participant |-> FALSE]
        ELSE IF preferred \in Range(providers)
             THEN [provider |-> preferred, is_participant |-> TRUE]
             ELSE [provider |-> providers[1], is_participant |-> TRUE]

_pick_non_participant_synthesizer(providers, p_names, preferred) ==
    LET not_in_panel == FilterSeq(providers, Range(providers) \ Range(p_names))
    IN  IF not_in_panel # <<>>
        THEN IF preferred \in Range(not_in_panel)
             THEN [provider |-> preferred, is_participant |-> FALSE]
             ELSE [provider |-> not_in_panel[1], is_participant |-> FALSE]
        ELSE IF preferred \in Range(providers)
             THEN [provider |-> preferred, is_participant |-> TRUE]
             ELSE [provider |-> providers[1], is_participant |-> TRUE]

\* ------------------------------------------------------------------------
\* Backend replies and failures
\* ------------------------------------------------------------------------
Pending == [type |-> "pending"]

\* the text backend b returns in round k, as a sequence of words: the models
\* are free in what they write; the texts of one run are told apart by a word
\* for the backend and a word for the round
Voice(b) == CASE b = "claude" -> "alpha"
              [] b = "gemini" -> "beta"
              [] b = "openai" -> "gamma"
              [] OTHER        -> "delta"

Ordinal == <<"first", "second", "third", "fourth">>

ReplyText(b, k) == <<Voice(b), Ordinal[k]>>

\* ModelResponse as built by a provider's generate
ModelResponse(b, k) ==
    [type |-> "ModelResponse", provider |-> b, model |-> ModelOf(b),
     round_number |-> k, content |-> ReplyText(b, k)]

\* ------------------------------------------------------------------------
\* Prompts (debate.py 18-32, 115-135)
\* ------------------------------------------------------------------------
\* chr(ord("A") + i) for i = 0, 1, 2, ...
Letters == <<"A", "B", "C", "D", "E", "F">>

\* the orders random.shuffle can leave a list of n elements in: position i of
\* the shuffled list holds element perm[i] of the original
Shuffles(n) == {perm \in [1..n -> 1..n] : {perm[i] : i \in 1..n} = 1..n}

\* f"--- Proposal {label} ---\n{r.content}", as a sequence of words
ProposalPart(label, content) == <<"--- Proposal", label, "---">> \o content

\* labels that start at the second letter
_anonymize_responses_from_B(responses, perm) ==
    LET shuffled == [i \in DOMAIN responses |-> responses[perm[i]]]
        labels   == [i \in DOMAIN shuffled |-> Letters[i + 1]]
    IN  [block   |-> [i \in DOMAIN shuffled |->
                        ProposalPart(labels[i], shuffled[i].content)],
         mapping |-> [l \in Range(labels) |->
                        shuffled[CHOOSE i \in DOMAIN shuffled : labels[i] = l].provider]]

\* _anonymize_responses: perm is the order random.shuffle produced.  The
\* block is kept as the sequence of its parts, which "\n\n".join glues
_anonymize_responses(responses, perm) ==
    LET shuffled == [i \in DOMAIN responses |-> responses[perm[i]]]
        labels   == [i \in DOMAIN shuffled |-> Letters[i]]
    IN  [block   |-> [i \in DOMAIN shuffled |->
                        ProposalPart(labels[i], shuffled[i].content)],
         mapping |-> [l \in Range(labels) |->
                        shuffled[CHOOSE i \in DOMAIN shuffled : labels[i] = l].provider]]

\* prompts.initial.format(persona=..., question=...)
InitialPrompt(b) == [template |-> "initial", persona |-> b]

\* prompts.critique.format(persona=..., round=..., question=...,
\*                        previous_responses_anonymized=anon_block)
CritiquePrompt(b, k, anon_block) ==
    [template |-> "critique", persona |-> b, round |-> k,
     previous_responses_anonymized |-> anon_block]

RECURSIVE AllResponses(_)
\* the replies of the whole history, round after round
AllResponses(rs) ==
    IF rs = <<>> THEN <<>> ELSE Head(rs).responses \o AllResponses(Tail(rs))

\* rounds[-1].responses
PreviousResponses(rs) == rs[Len(rs)].responses

\* ProviderError(provider_name, message); the message is a sequence of words
ProviderError(b, msg) ==
    [type |-> "ProviderError", provider_name |-> b, message |-> msg]

\* a ProviderError returned by _call_provider to gather: its text has been
\* logged and is never read again, so only the backend name is kept
Failure(b) == [type |-> "ProviderError", provider_name |-> b]

\* str(exc): "[provider_name] message"
StrOf(exc) == <<exc.provider_name>> \o exc.message

\* the messages a provider's generate raises
TimeoutMessage == <<"Request", "timed", "out", "after", "Ns">>

FailedMessage == <<"API", "call", "failed">>

Lower(w) == CASE w = "Request" -> "request"
              [] w = "API"     -> "api"
              [] w = "Ns"      -> "ns"
              [] OTHER         -> w

\* a retry on every ProviderError, whatever its text
IsAnyProviderError(exc) == exc.type = "ProviderError"

\* "timed out" in str(exc).lower()
IsTimedOut(exc) ==
    LET s == [i \in DOMAIN StrOf(exc) |-> Lower(StrOf(exc)[i])]
    IN  \E i \in 1..(Len(s) - 1) : s[i] = "timed" /\ s[i + 1] = "out"

\* the product rounded up instead of truncated
RetryTimeoutCeil(t) == (3 * t + 1) \div 2

\* int(original_timeout * 1.5): the product truncated toward zero
RetryTimeout(t) == IF t >= 0 THEN (3 * t) \div 2 ELSE -((3 * (-t)) \div 2)

\* what one await of provider.generate can end with
Outcomes == {"ok", "timeout", "error", "crash"}

\* ------------------------------------------------------------------------
\* State
\* ------------------------------------------------------------------------
VARIABLES
    pc,               \* where _run_single / run_debate stands
    all_providers,    \* keys of the all_providers dict, in dict order
    num_rounds,       \* --rounds
    panel_names,      \* _run_single local, after synthesizer exclusion
    panel_mode,       \* _run_single local
    providers,        \* panel_providers: the list handed to run_debate
    synthesizer,      \* name of the chosen synthesizer backend
    is_participant,   \* _run_single local
    timeout_sec,      \* provider._config.timeout_sec of every backend
    round_num,        \* run_debate loop variable
    rounds,           \* run_debate local: list of Round
    tasks,            \* the round's _call_provider coroutines, in gather order
    inflight,         \* provider.generate calls that have not settled yet
    first,            \* per unfinished task: how its first generate call ended
    oks,              \* per round: tasks whose last generate call succeeded
    dispatch_timeout, \* timeout_sec as it was when the round was dispatched
    warnings,         \* quality-gate warnings logged
    completed_rounds, \* _run_single.completed_rounds, filled by the callback
    error,            \* the exception that ended the run, or None
    synth_calls,      \* generate calls made by synthesize
    result,           \* the DebateResult, or None
    applied,          \* the function application explored on its own, if any
    generate_calls,   \* generate calls run_debate has started, where counted
    files,            \* _run_inbox: the list scan_inbox returned
    file_idx,         \* _run_inbox: position of the loop in files, 0 before it
    archive           \* the archive directory: one entry per archived file

vars == <<pc, all_providers, num_rounds,
          panel_names, panel_mode, providers, synthesizer, is_participant,
          timeout_sec, round_num, rounds, tasks, inflight, first, oks,
          dispatch_timeout, warnings, completed_rounds, error, synth_calls, result,
          applied, generate_calls, files, file_idx, archive>>

inboxVars == <<files, file_idx, archive>>

inputVars == <<all_providers, num_rounds, applied, inboxVars>>

selectVars == <<panel_names, panel_mode, providers, synthesizer, is_participant>>

roundVars == <<round_num, rounds, warnings, completed_rounds>>

\* no function applied on its own
NoCall == [fn |-> "None"]

\* the all_providers dicts explored: any part of the configured backends, in
\* configuration order; with none the program exits with status 1 (in main,
\* in the health check or at the guard of _run_single)
AvailableChoices == {FilterSeq(Backends, S) : S \in SUBSET BackendNames}

\* the --synthesizer values explored: in both panels, in the full panel only,
\* and a name no backend has
SynthesizerChoices == {"claude", "grok", "mistral"}

ModelsArgChoices == {Flatten(ps) : ps \in SeqsUpTo(ArgPieces, MaxArgLen)}

\* the --rounds values explored: click accepts any int, negative and zero too
RoundsChoices == (-1)..MaxRounds

\* nothing of a run has happened yet
NothingRunYet ==
    /\ panel_names = <<>>
    /\ panel_mode = None
    /\ providers = <<>>
    /\ synthesizer = None
    /\ is_participant = FALSE
    /\ timeout_sec = ConfigTimeout
    /\ round_num = 0
    /\ rounds = <<>>
    /\ tasks = <<>>
    /\ inflight = {}
    /\ first = <<>>
    /\ oks = <<>>
    /\ dispatch_timeout = ConfigTimeout
    /\ warnings = <<>>
    /\ completed_rounds = <<>>
    /\ error = NoError
    /\ synth_calls = <<>>
    /\ result = NoResult
    /\ applied = NoCall

\* generate calls are not counted
NotCounted == -1

\* the counter c after k more calls
Counted(c, k) == IF c = NotCounted THEN c ELSE c + k

\* no inbox is processed
NoInbox ==
    /\ files = <<>>
    /\ file_idx = 0
    /\ archive = <<>>

Init ==
    /\ pc = "start"
    /\ all_providers \in AvailableChoices
    /\ num_rounds \in RoundsChoices
    /\ NothingRunYet
    /\ generate_calls = NotCounted
    /\ NoInbox

\* ------------------------------------------------------------------------
\* _run_single, up to the call of run_debate (cli.py 174-206)
\* ------------------------------------------------------------------------
\* a debate that starts with a single debater
PanelEmpty(pp) == Len(pp) < 1

\* if len(panel_providers) < 2: sys.exit(1)
PanelTooSmall(pp) == Len(pp) < 2

\* models_arg, full_flag and synthesizer_name are the --models, --full and
\* --synthesizer values of the invocation; they are read here and not again
RunSingleSelect(models_arg, full_flag, synthesizer_name) ==
    /\ pc = "start"
    /\ IF all_providers = <<>>
       THEN \* if not all_providers: sys.exit(1)
            /\ pc' = "exit"
            /\ error' = [type |-> "SystemExit", round |-> 0]
            /\ UNCHANGED selectVars
       ELSE LET panel  == _determine_panel(models_arg, full_flag)
                names  == _exclude_synthesizer_from_panel(panel.names, synthesizer_name,
                                                          all_providers)
                pp     == FilterSeq(names, Range(all_providers))
                pick   == _pick_non_participant_synthesizer(all_providers, names,
                                                            synthesizer_name)
            IN  /\ panel_names' = names
                /\ panel_mode' = panel.mode
                /\ providers' = pp
                /\ IF PanelTooSmall(pp)
                   THEN /\ pc' = "exit"
                        /\ error' = [type |-> "SystemExit", round |-> 0]
                        /\ UNCHANGED <<synthesizer, is_participant>>
                   ELSE /\ pc' = "round_start"
                        /\ synthesizer' = pick.provider
                        /\ is_participant' = pick.is_participant
                        /\ error' = error
    /\ UNCHANGED <<inputVars, timeout_sec, round_num, rounds, tasks, inflight,
                   first, oks, dispatch_timeout, warnings, completed_rounds, synth_calls, result,
                   generate_calls>>

\* ------------------------------------------------------------------------
\* run_debate (debate.py 112-176) and _call_provider (debate.py 35-87)
\* ------------------------------------------------------------------------
NoTimeout == -1

\* a loop that runs one more iteration
RoundRangeOneMore(n) == 1..(n + 1)

\* a loop that stops at the configured ceiling
RoundRangeCapped(n) == 1..(IF n < max_rounds THEN n ELSE max_rounds)

\* range(1, num_rounds + 1)
RoundRange(n) == 1..n

\* only the backends that replied in the previous round are called again
RoundPanelOfSurvivors(pp, rs) ==
    IF rs = <<>> THEN pp
    ELSE FilterSeq(pp, {rs[Len(rs)].responses[x].provider :
                           x \in DOMAIN rs[Len(rs)].responses})

\* for provider in providers: the backends a round creates tasks for
RoundPanel(pp, rs) == pp

\* random.shuffle applied to the list of the Round itself
ShuffledInPlace(responses, perm) == [i \in DOMAIN responses |-> responses[perm[i]]]

\* what _anonymize_responses leaves in the list it was given:
\* shuffled = list(responses) is a copy, so the list is as it was
AfterAnonymize(responses, perm) == responses

\* the Round objects of a list after the anonymizer ran on the last of them
RoundsAfterAnonymize(rs, perm) ==
    IF rs = <<>> THEN rs
    ELSE [rs EXCEPT ![Len(rs)].responses = AfterAnonymize(@, perm)]

\* one loop iteration up to the await: prompts are built, one _call_provider
\* task per entry of providers is created, and each task runs to its first
\* await inside provider.generate, where wait_for has read the timeout
StartRound(perm) ==
    /\ pc = "round_start"
    /\ round_num + 1 \in RoundRange(num_rounds)
    /\ round_num' = round_num + 1
    /\ LET prompts_for_round ==
              IF round_num + 1 = 1
              THEN [b \in Range(providers) |-> InitialPrompt(b)]
              ELSE LET anon == _anonymize_responses(PreviousResponses(rounds), perm)
                   IN  [b \in Range(providers) |->
                          CritiquePrompt(b, round_num + 1, anon.block)]
           panel == RoundPanel(providers, rounds)
       IN  /\ tasks' = [i \in DOMAIN panel |->
                          [provider |-> panel[i], state |-> "attempt1",
                           prompt |-> prompts_for_round[panel[i]],
                           original_timeout |-> NoTimeout, result |-> Pending]]
           /\ inflight' = inflight \cup
                   {[task |-> i, provider |-> panel[i],
                     prompt |-> prompts_for_round[panel[i]],
                     round_number |-> round_num + 1, attempt |-> 1,
                     timeout |-> timeout_sec[panel[i]]] : i \in DOMAIN panel}
           /\ first' = [i \in DOMAIN panel |-> "pending"]
           /\ generate_calls' = Counted(generate_calls, Len(panel))
    \* rounds and completed_rounds hold the same Round objects
    /\ rounds' = IF round_num + 1 = 1 THEN rounds ELSE RoundsAfterAnonymize(rounds, perm)
    /\ completed_rounds' = IF round_num + 1 = 1 THEN completed_rounds
                           ELSE RoundsAfterAnonymize(completed_rounds, perm)
    /\ oks' = Append(oks, {})
    /\ dispatch_timeout' = timeout_sec
    /\ pc' = "gather"
    /\ UNCHANGED <<inputVars, selectVars, timeout_sec, warnings,
                   error, synth_calls, result>>

\* the exception generate raises for a failed outcome of a provider
RaisedBy(b, o) ==
    IF o = "timeout" THEN ProviderError(b, TimeoutMessage)
    ELSE ProviderError(b, FailedMessage)

\* only ProviderError is handled: any other exception leaves _call_provider
ExceptClauseProviderErrorOnly(o) ==
    IF o \in {"timeout", "error"} THEN "ProviderError" ELSE "none"

\* the except clause an exception raised by generate runs into: generate
\* raises ProviderError for a timeout or an API failure, and "crash" stands
\* for an exception of any other class, which except Exception takes
ExceptClause(o) ==
    IF o \in {"timeout", "error"} THEN "ProviderError" ELSE "Exception"

\* the first generate call of a task settles (debate.py 44-64, 82-87)
FirstAttemptSettles(c, o) ==
    /\ c \in inflight
    /\ c.attempt = 1
    /\ LET i == c.task
           b == c.provider
           clause == IF o = "ok" THEN "return" ELSE ExceptClause(o)
           retry == clause = "ProviderError" /\ IsTimedOut(RaisedBy(b, o))
       IN  IF clause = "none"
           THEN \* the exception leaves the task and gather raises it in run_debate
                /\ pc' = "raised"
                /\ error' = [type |-> "Exception", round |-> c.round_number]
                /\ inflight' = inflight \ {c}
                /\ UNCHANGED <<first, tasks, timeout_sec, oks, generate_calls>>
           ELSE /\ UNCHANGED <<pc, error>>
                /\ IF retry
                   THEN /\ first' = [first EXCEPT ![i] = o]
                        /\ generate_calls' = Counted(generate_calls, 1)
                        /\ tasks' = [tasks EXCEPT ![i].state = "attempt2",
                                                  ![i].original_timeout = timeout_sec[b]]
                        /\ timeout_sec' = [timeout_sec EXCEPT ![b] = RetryTimeout(timeout_sec[b])]
                        /\ inflight' = (inflight \ {c}) \cup
                                       {[c EXCEPT !.attempt = 2,
                                                  !.timeout = RetryTimeout(timeout_sec[b])]}
                        /\ oks' = oks
                   ELSE /\ first' = [first EXCEPT ![i] =
                                        IF o = "timeout" THEN "timeout" ELSE "settled"]
                        /\ tasks' = [tasks EXCEPT ![i].state = "done",
                                        ![i].result =
                                           IF o = "ok" THEN ModelResponse(b, c.round_number)
                                           ELSE Failure(b)]
                        /\ inflight' = inflight \ {c}
                        /\ timeout_sec' = timeout_sec
                        /\ generate_calls' = generate_calls
                        /\ oks' = IF o = "ok"
                                  THEN [oks EXCEPT ![c.round_number] = @ \cup {i}]
                                  ELSE oks
    /\ UNCHANGED <<inputVars, selectVars, roundVars, dispatch_timeout,
                   synth_calls, result>>

\* the retry generate call of a task settles (debate.py 63-80)
RetrySettles(c, o) ==
    /\ c \in inflight
    /\ c.attempt = 2
    /\ LET i == c.task
           b == c.provider
           clause == IF o = "ok" THEN "return" ELSE ExceptClause(o)
       IN  /\ inflight' = inflight \ {c}
           \* finally: cfg.timeout_sec = original_timeout
           /\ timeout_sec' = [timeout_sec EXCEPT ![b] = tasks[i].original_timeout]
           /\ IF clause = "none"
              THEN /\ pc' = "raised"
                   /\ error' = [type |-> "Exception", round |-> c.round_number]
                   /\ UNCHANGED <<first, tasks, oks>>
              ELSE /\ UNCHANGED <<pc, error>>
                   /\ tasks' = [tasks EXCEPT ![i].state = "done",
                                   ![i].original_timeout = NoTimeout,
                                   ![i].result =
                                      IF o = "ok" THEN ModelResponse(b, c.round_number)
                                      ELSE Failure(b)]
                   /\ first' = [first EXCEPT ![i] = "settled"]
                   /\ oks' = IF o = "ok"
                             THEN [oks EXCEPT ![c.round_number] = @ \cup {i}]
                             ELSE oks
    /\ UNCHANGED <<inputVars, selectVars, roundVars, dispatch_timeout,
                   synth_calls, result,
                   generate_calls>>

\* a barrier that opens with the first task to return
AnySettled == \E i \in DOMAIN tasks : tasks[i].result # Pending

\* await asyncio.gather(*tasks) resumes when every task has returned
AllSettled == \A i \in DOMAIN tasks : tasks[i].result # Pending

\* only the first reply is kept
CollectFirstResponse(results) ==
    LET all == SelectSeq(results, LAMBDA r : r.type = "ModelResponse")
    IN  IF all = <<>> THEN <<>> ELSE <<all[1]>>

\* the isinstance filter over the gathered results, in gather order
CollectResponses(results) ==
    SelectSeq(results, LAMBDA r : r.type = "ModelResponse")

\* a round that raises as soon as one backend failed
RoundFailsOnAnyFailure(responses) == Len(responses) < Len(tasks)

\* a round that never raises
RoundNeverFails(responses) == FALSE

\* if not responses: raise
RoundFails(responses) == responses = <<>>

\* a threshold that grows with the panel
QualityGateScaled(k, n_providers, n_responses) ==
    /\ k = 1
    /\ n_providers >= _MIN_QUALITY_RESPONSES
    /\ n_responses < n_providers

\* the quality-gate condition
QualityGateFires(k, n_providers, n_responses) ==
    /\ k = 1
    /\ n_providers >= _MIN_QUALITY_RESPONSES
    /\ n_responses < _MIN_QUALITY_RESPONSES

\* the callback called twice for a round
on_round_complete_twice(log, rnd) == Append(Append(log, rnd), rnd)

\* _run_single.on_round_complete: completed_rounds.append(rnd)
on_round_complete(log, rnd) == Append(log, rnd)

\* the rest of the loop iteration after the await (debate.py 143-174)
CollectRound ==
    /\ pc = "gather"
    /\ AllSettled
    /\ LET responses == CollectResponses([i \in DOMAIN tasks |-> tasks[i].result])
           current_round == [number |-> round_num, responses |-> responses]
       IN  IF RoundFails(responses)
           THEN /\ pc' = "raised"
                /\ error' = [type |-> "RuntimeError", round |-> round_num]
                /\ UNCHANGED <<rounds, warnings, completed_rounds>>
           ELSE /\ pc' = "round_start"
                /\ warnings' =
                      IF QualityGateFires(round_num, Len(providers), Len(responses))
                      THEN Append(warnings, [round |-> round_num,
                                             responded |-> Len(responses),
                                             total |-> Len(providers)])
                      ELSE warnings
                /\ rounds' = Append(rounds, current_round)
                /\ completed_rounds' = on_round_complete(completed_rounds, rounds'[Len(rounds')])
                /\ error' = error
    \* the task list and the gathered results are not used again
    /\ tasks' = <<>>
    /\ first' = <<>>
    /\ UNCHANGED <<inputVars, selectVars, timeout_sec, round_num, inflight,
                   oks, dispatch_timeout, synth_calls, result,
                   generate_calls>>

\* the loop is exhausted: return rounds (debate.py 176, cli.py 221-228)
ReturnRounds ==
    /\ pc = "round_start"
    /\ round_num + 1 \notin RoundRange(num_rounds)
    /\ pc' = "synthesis"
    /\ UNCHANGED <<inputVars, selectVars, timeout_sec, roundVars, tasks, inflight,
                   first, oks, dispatch_timeout, error, synth_calls, result,
                   generate_calls>>

\* ------------------------------------------------------------------------
\* synthesize (synthesis.py 13-78), called from cli.py 230-238
\* ------------------------------------------------------------------------
\* what the synthesizer's generate can end with: a reply, a reply without
\* text, a ProviderError (timed out or not), an exception of another kind
SynthOutcomes == {"ok", "empty", "timeout", "error", "crash"}

\* f"### Round {rnd.number}"
RoundHeader(number) == <<"### Round", number>>

\* f"**{resp.provider} ({resp.model})**\n{resp.content}", as a sequence of words
TranscriptEntry(resp) == <<"**", resp.provider, resp.model, "**">> \o resp.content

\* only the last round is formatted
_format_full_transcript_last_round(rs) ==
    IF rs = <<>> THEN <<>>
    ELSE LET rnd == rs[Len(rs)]
         IN  <<RoundHeader(rnd.number)>>
             \o [i \in DOMAIN rnd.responses |-> TranscriptEntry(rnd.responses[i])]
             \o << <<>> >>

RECURSIVE _format_full_transcript(_)
\* the parts list, which "\n\n".join glues: per round a header, one entry per
\* reply and an empty part
_format_full_transcript(rs) ==
    IF rs = <<>> THEN <<>>
    ELSE LET rnd == Head(rs)
         IN  <<RoundHeader(rnd.number)>>
             \o [i \in DOMAIN rnd.responses |-> TranscriptEntry(rnd.responses[i])]
             \o << <<>> >>
             \o _format_full_transcript(Tail(rs))

\* prompts.synthesis.format(rounds=..., question=..., full_transcript=...)
SynthesisPrompt(rs) ==
    [template |-> "synthesis", rounds |-> Len(rs),
     full_transcript |-> _format_full_transcript(rs)]

\* the index of the last round is reused
SynthesisRoundNumberOfLast(rs) == Len(rs)

\* round_number=len(rounds) + 1
SynthesisRoundNumber(rs) == Len(rs) + 1

\* the text of the synthesizer's reply
SynthesisText(o) == IF o = "ok" THEN <<"consensus">> ELSE <<>>

\* what the await of synthesizer.generate gives back to synthesize
SynthesisReturn(o) ==
    IF o \in {"ok", "empty"}
    THEN [type |-> "ModelResponse", content |-> SynthesisText(o)]
    ELSE [type |-> IF o = "crash" THEN "Exception" ELSE "ProviderError"]

\* a reply without text is taken as the synthesis
EmptyContentAccepted(content) == FALSE

\* if not synthesis_response.content
EmptyContent(content) == content = <<>>

\* the caller leaves panel_mode and synthesizer_is_participant to their defaults
DebateResultDefaults(rs, content, name, mode, flag) ==
    [rounds |-> rs, synthesis |-> content, synthesizer |-> name,
     panel_mode |-> "default", synthesizer_is_participant |-> FALSE]

\* DebateResult(question, rounds, synthesis, synthesizer, total_duration_sec,
\*              panel_mode, synthesizer_is_participant)
DebateResult(rs, content, name, mode, flag) ==
    [rounds |-> rs, synthesis |-> content, synthesizer |-> name,
     panel_mode |-> mode, synthesizer_is_participant |-> flag]

\* synthesize: the prompt is built, generate is awaited once, and either the
\* exception it raises leaves synthesize or the reply is checked and stamped
Synthesize(o) ==
    /\ pc = "synthesis"
    /\ synth_calls' = Append(synth_calls,
                             [provider |-> synthesizer,
                              prompt |-> SynthesisPrompt(rounds),
                              round_number |-> SynthesisRoundNumber(rounds),
                              returned |-> SynthesisReturn(o)])
    /\ IF SynthesisReturn(o).type # "ModelResponse"
       THEN /\ pc' = "synthesis_failed"
            /\ error' = [type |-> SynthesisReturn(o).type, round |-> 0]
            /\ result' = result
       ELSE IF EmptyContent(SynthesisReturn(o).content)
       THEN /\ pc' = "synthesis_failed"
            /\ error' = [type |-> "RuntimeError", round |-> 0]
            /\ result' = result
       ELSE /\ pc' = "done"
            /\ result' = DebateResult(rounds, SynthesisReturn(o).content, synthesizer,
                                      panel_mode, is_participant)
            /\ error' = error
    /\ UNCHANGED <<inputVars, selectVars, timeout_sec, roundVars, tasks, inflight,
                   first, oks, dispatch_timeout, generate_calls>>

Select ==
    /\ pc = "start"
    /\ \E models_arg \in ModelsArgChoices, full_flag \in BOOLEAN,
          synthesizer_name \in SynthesizerChoices :
           RunSingleSelect(models_arg, full_flag, synthesizer_name)

\* the orders the shuffle of this iteration can produce (round 1 has none)
ShuffleChoices ==
    IF round_num + 1 = 1 \/ rounds = <<>> THEN {<<>>}
    ELSE Shuffles(Len(PreviousResponses(rounds)))

Dispatch ==
    /\ pc = "round_start"
    /\ \E perm \in ShuffleChoices : StartRound(perm)

FirstAttempt == \E c \in inflight, o \in Outcomes : FirstAttemptSettles(c, o)

Retry == \E c \in inflight, o \in Outcomes : RetrySettles(c, o)

Synthesis == \E o \in SynthOutcomes : Synthesize(o)

Next ==
    \/ Select
    \/ Dispatch
    \/ FirstAttempt
    \/ Retry
    \/ CollectRound
    \/ ReturnRounds
    \/ Synthesis

Spec == Init /\ [][Next]_vars

\* Runs long enough for a critique round to have two rounds behind it: three
\* healthy backends (no grok key), --rounds CritiqueRounds
InitCritique ==
    /\ pc = "start"
    /\ all_providers = <<"claude", "gemini", "openai">>
    /\ num_rounds = CritiqueRounds
    /\ NothingRunYet
    /\ generate_calls = NotCounted
    /\ NoInbox

CritiqueSpec == InitCritique /\ [][Next]_vars

\* Runs in which the generate calls of run_debate are counted: two backends
\* have a key, so that a panel has two entries (of one backend or of both)
InitCounted ==
    /\ pc = "start"
    /\ all_providers = <<"claude", "gemini">>
    /\ num_rounds \in RoundsChoices
    /\ NothingRunYet
    /\ generate_calls = 0
    /\ NoInbox

\* every generate call in flight settles (the provider's wait_for ends it at
\* the latest when its timeout expires), and the event loop runs the code of
\* _run_single and run_debate whenever it is not waiting for a call
Progress ==
    /\ WF_vars(FirstAttempt)
    /\ WF_vars(Retry)
    /\ WF_vars(Select)
    /\ WF_vars(Dispatch)
    /\ WF_vars(CollectRound)
    /\ WF_vars(ReturnRounds)

LiveSpec == InitCounted /\ [][Next]_vars /\ Progress

\* ------------------------------------------------------------------------
\* _run_inbox (cli.py 250-305): one _run_single per file of the inbox
\* ------------------------------------------------------------------------
\* the .md files an inbox can hold, oldest first
InboxNames == <<"a.md", "b.md", "c.md", "d.md">>

\* effective_synthesizer: the same for every file of the run
InboxSynthesizerName == "claude"

InitInbox ==
    /\ pc = "inbox_loop"
    /\ all_providers = <<"claude", "gemini">>
    /\ num_rounds = 0
    /\ NothingRunYet
    /\ generate_calls = NotCounted
    /\ files \in {SubSeq(InboxNames, 1, n) : n \in 0..MaxFiles}
    /\ file_idx = 0
    /\ archive = <<>>

\* the locals of _run_single are gone when it is left; the provider objects,
\* and with them their timeouts, are shared by all files
RunSingleLeft ==
    /\ panel_names' = <<>>
    /\ panel_mode' = None
    /\ providers' = <<>>
    /\ synthesizer' = None
    /\ is_participant' = FALSE
    /\ round_num' = 0
    /\ rounds' = <<>>
    /\ tasks' = <<>>
    /\ inflight' = {}
    /\ first' = <<>>
    /\ oks' = <<>>
    /\ dispatch_timeout' = ConfigTimeout
    /\ warnings' = <<>>
    /\ completed_rounds' = <<>>
    /\ synth_calls' = <<>>
    /\ result' = NoResult

\* the loop takes the next file: parse_file and the reading of its settings
\* run before the try statement, so an exception they raise (a frontmatter
\* that does not parse, a rounds value that is no integer) leaves _run_inbox
InboxNextFile(parses, rounds_value) ==
    /\ pc = "inbox_loop"
    /\ file_idx < Len(files)
    /\ file_idx' = file_idx + 1
    /\ IF parses
       THEN /\ pc' = "start"
            /\ num_rounds' = rounds_value
            /\ error' = NoError
       ELSE /\ pc' = "inbox_crashed"
            /\ num_rounds' = num_rounds
            /\ error' = [type |-> "Exception", round |-> 0]
    /\ UNCHANGED <<all_providers, applied, files, archive, selectVars, timeout_sec,
                   roundVars, tasks, inflight, first, oks, dispatch_timeout,
                   synth_calls, result, generate_calls>>

\* the loop is exhausted
InboxReturn ==
    /\ pc = "inbox_loop"
    /\ file_idx = Len(files)
    /\ pc' = "inbox_done"
    /\ UNCHANGED <<inputVars, selectVars, timeout_sec, roundVars, tasks, inflight,
                   first, oks, dispatch_timeout, error, synth_calls, result,
                   generate_calls>>

\* SystemExit derives from BaseException, not from Exception
CaughtByExceptException(err) == err.type # "SystemExit"

\* archive_file: the file is moved to the archive under a timestamped name,
\* prefixed with FAILED_ when failed
archive_file(dir, name, failed) == Append(dir, [name |-> name, failed |-> failed])

\* _run_single is left (cli.py 240-247, 288-305): after synthesis the result
\* is printed and saved, which can raise; a return archives the file, an
\* Exception archives it as failed, anything else leaves _run_inbox
InboxAfterRun(saved) ==
    /\ pc \in {"done", "raised", "synthesis_failed", "exit"}
    /\ LET raised == IF pc = "done"
                     THEN IF saved THEN NoError ELSE [type |-> "OSError", round |-> 0]
                     ELSE error
       IN  IF raised = NoError
           THEN /\ archive' = archive_file(archive, files[file_idx], FALSE)
                /\ pc' = "inbox_loop"
                /\ error' = NoError
           ELSE IF CaughtByExceptException(raised)
           THEN /\ archive' = archive_file(archive, files[file_idx], TRUE)
                /\ pc' = "inbox_loop"
                /\ error' = NoError
           ELSE /\ archive' = archive
                /\ pc' = "inbox_aborted"
                /\ error' = raised
    /\ RunSingleLeft
    /\ UNCHANGED <<all_providers, num_rounds, applied, files, file_idx, timeout_sec,
                   generate_calls>>

InboxParse ==
    /\ pc = "inbox_loop"
    /\ \E parses \in BOOLEAN, rounds_value \in RoundsChoices :
          InboxNextFile(parses, rounds_value)

InboxSelect ==
    /\ pc = "start"
    /\ \E models_arg \in ModelsArgChoices, full_flag \in BOOLEAN :
           RunSingleSelect(models_arg, full_flag, InboxSynthesizerName)

InboxArchive == \E saved \in BOOLEAN : InboxAfterRun(saved)

InboxNext ==
    \/ InboxParse
    \/ InboxReturn
    \/ InboxSelect
    \/ Dispatch
    \/ FirstAttempt
    \/ Retry
    \/ CollectRound
    \/ ReturnRounds
    \/ Synthesis
    \/ InboxArchive

InboxSpec == InitInbox /\ [][InboxNext]_vars

\* ------------------------------------------------------------------------
\* The pure functions of selection and anonymization, applied on their own
\* to every input of a bounded set
\* ------------------------------------------------------------------------
\* the names a panel list or a --synthesizer value can hold: the configured
\* backends and a name no backend has
NameChoices == BackendNames \cup {"mistral"}

PanelChoices == SeqsUpTo(NameChoices, MaxPanelLen)

\* texts a backend can reply with; a backend is free to name a backend or a
\* model in its answer
TextChoices == {<<"yes">>, <<"claude", "is", "right">>, <<"ask", "gemini-model">>}

\* the ModelResponse values given to the anonymizer
ReplyChoices ==
    {[type |-> "ModelResponse", provider |-> b, model |-> ModelOf(b),
      round_number |-> 1, content |-> t] : b \in {"claude", "gemini"}, t \in TextChoices}

runVars == <<pc, all_providers, num_rounds, selectVars, timeout_sec, roundVars, tasks,
             inflight, first, oks, dispatch_timeout, error, synth_calls, result,
             generate_calls, inboxVars>>

InitFunctions ==
    /\ pc = "functions"
    /\ all_providers = <<>>
    /\ num_rounds = 0
    /\ NothingRunYet
    /\ generate_calls = NotCounted
    /\ NoInbox

ApplyDeterminePanel ==
    /\ pc = "functions"
    /\ applied = NoCall
    /\ \E m \in ModelsArgChoices, f \in BOOLEAN :
          applied' = [fn |-> "_determine_panel", models_arg |-> m, full_flag |-> f,
                      value |-> _determine_panel(m, f)]
    /\ UNCHANGED runVars

ApplyExcludeSynthesizer ==
    /\ pc = "functions"
    /\ applied = NoCall
    /\ \E p \in PanelChoices, n \in NameChoices, av \in AvailableChoices :
          applied' = [fn |-> "_exclude_synthesizer_from_panel", panel_names |-> p,
                      synthesizer_name |-> n, all_providers |-> av,
                      value |-> _exclude_synthesizer_from_panel(p, n, av)]
    /\ UNCHANGED runVars

\* _run_single calls the selector only with a non-empty dict
ApplyPickSynthesizer ==
    /\ pc = "functions"
    /\ applied = NoCall
    /\ \E p \in PanelChoices, n \in NameChoices, av \in AvailableChoices \ {<<>>} :
          applied' = [fn |-> "_pick_non_participant_synthesizer", all_providers |-> av,
                      panel_names |-> p, preferred |-> n,
                      value |-> _pick_non_participant_synthesizer(av, p, n)]
    /\ UNCHANGED runVars

ApplyAnonymize ==
    /\ pc = "functions"
    /\ applied = NoCall
    /\ \E rs \in SeqsUpTo(ReplyChoices, MaxReplies) :
          \E perm \in Shuffles(Len(rs)) :
              applied' = [fn |-> "_anonymize_responses", responses |-> rs, perm |-> perm,
                          value |-> _anonymize_responses(rs, perm)]
    /\ UNCHANGED runVars

NextFunctions ==
    \/ ApplyDeterminePanel
    \/ ApplyExcludeSynthesizer
    \/ ApplyPickSynthesizer
    \/ ApplyAnonymize

FnSpec == InitFunctions /\ [][NextFunctions]_vars

\* ------------------------------------------------------------------------
\* Observations used by the properties
\* ------------------------------------------------------------------------
\* round k is over: its barrier resolved and the code after it ran
Collected(k) == k \in DOMAIN oks /\ (k < round_num \/ pc # "gather")

\* number of entries of the list handed to run_debate that are backend b
Dispatches(b) == Cardinality({i \in DOMAIN providers : providers[i] = b})

RoundNumbers(rs) == {rs[j].number : j \in DOMAIN rs}

\* ------------------------------------------------------------------------
\* C1: a Round for round k is appended and passed to the callback exactly
\* when at least one dispatched backend ended round k with a reply; when all
\* failed the run ends with the RuntimeError of round k and no Round k exists.
\* Every Round has at least one reply; one failure does not abort the round.
\* ------------------------------------------------------------------------
C1_RoundIffSomeReply ==
    /\ \A k \in DOMAIN oks : Collected(k) =>
          /\ (oks[k] # {}) <=> (k \in RoundNumbers(rounds))
          /\ (oks[k] # {}) <=> (k \in RoundNumbers(completed_rounds))
          /\ (oks[k] = {}) =>
                (pc = "raised" /\ error = [type |-> "RuntimeError", round |-> k])
    /\ \A j \in DOMAIN rounds : rounds[j].responses # <<>>
    /\ RoundNumbers(rounds) \subseteq {k \in DOMAIN oks : Collected(k)}

C1_Witness ==
    \E k \in DOMAIN oks :
        /\ Collected(k)
        /\ oks[k] # {}
        /\ Cardinality(oks[k]) < Len(providers)
        /\ k \in RoundNumbers(rounds)

\* ------------------------------------------------------------------------
\* C2: no Round holds two replies of the same backend name.
\* ------------------------------------------------------------------------
C2_NoTwoRepliesOfOneBackend ==
    \A j \in DOMAIN rounds :
        \A x, y \in DOMAIN rounds[j].responses :
            x # y => rounds[j].responses[x].provider # rounds[j].responses[y].provider

\* ------------------------------------------------------------------------
\* C3: a dispatched call invokes its backend once when the first attempt
\* succeeds or fails without a timeout indication, twice when the first
\* attempt timed out, and never more than twice whatever the retry does.
\* ------------------------------------------------------------------------
C3_CallCount ==
    \A i \in DOMAIN tasks :
        LET mine == {c \in inflight : c.task = i}
        IN  \* the first call is out and nothing is known of it yet
            /\ tasks[i].state = "attempt1" =>
                  first[i] = "pending" /\ \E c \in mine : mine = {c} /\ c.attempt = 1
            \* a second call is out exactly when the first one timed out
            /\ tasks[i].state = "attempt2" =>
                  first[i] = "timeout" /\ \E c \in mine : mine = {c} /\ c.attempt = 2
            /\ first[i] = "timeout" => tasks[i].state = "attempt2"
            \* a first call that did not time out, or a second call, ends the task
            /\ tasks[i].state = "done" => first[i] = "settled" /\ mine = {}

C3_Witness ==
    /\ \E i \in DOMAIN tasks : tasks[i].state = "attempt2" /\ first[i] = "timeout"
    /\ \E i \in DOMAIN tasks :
          tasks[i].state = "done" /\ tasks[i].result.type = "ProviderError"

\* ------------------------------------------------------------------------
\* C4: the replies of a Round are exactly the replies of the dispatched calls
\* whose last attempt succeeded, in panel order, whatever the order in which
\* the calls settled; nothing that succeeded is dropped, and the round is
\* collected only when every call has ended by itself.
\* ------------------------------------------------------------------------
C4_RepliesAreTheSuccesses ==
    /\ \A j \in DOMAIN rounds :
          LET k == rounds[j].number
          IN  /\ k \in DOMAIN oks
              /\ rounds[j].responses =
                    SelectIdx([i \in DOMAIN providers |-> ModelResponse(providers[i], k)],
                              oks[k], 1)
    /\ (pc = "gather" /\ AllSettled) =>
          \A i \in DOMAIN tasks :
              /\ first[i] # "pending"
              /\ (tasks[i].result.type = "ModelResponse") <=> (i \in oks[round_num])

C4_Witness ==
    \E j \in DOMAIN rounds :
        /\ Len(rounds[j].responses) >= 2
        /\ Len(rounds[j].responses) < Len(providers)
        /\ rounds[j].responses[1].provider # providers[1]

\* ------------------------------------------------------------------------
\* C5: no generate call and no retry handler sees a timeout value that
\* another call has modified: first attempts run with the configured timeout
\* and the value a retry multiplies is the configured one.
\* ------------------------------------------------------------------------
C5_NoSharedTimeout ==
    /\ \A c \in inflight :
          c.attempt = 1 => c.timeout = ConfigTimeout[c.provider]
    /\ \A i \in DOMAIN tasks :
          tasks[i].state = "attempt2" =>
              tasks[i].original_timeout = ConfigTimeout[tasks[i].provider]

\* ------------------------------------------------------------------------
\* C6: once all calls of a round have settled, every backend's timeout is
\* what it was when the round was dispatched.
\* ------------------------------------------------------------------------
C6_TimeoutRestored ==
    (inflight = {}) => timeout_sec = dispatch_timeout

C8_RoundsSequential ==
    /\ \A c \in inflight : c.round_number = round_num /\ pc = "gather"
    /\ pc # "gather" => inflight = {}
    /\ \A k \in DOMAIN oks : k < round_num => Collected(k)

C8_Witness ==
    /\ round_num = 2
    /\ pc = "gather"
    /\ \E c \in inflight : c.attempt = 2
    /\ Len(rounds) = 1

\* ------------------------------------------------------------------------
\* C9: a round k without any reply ends run_debate with the RuntimeError of
\* round k: no later round is dispatched, the callback does not see round k,
\* and no synthesis call is made.
\* ------------------------------------------------------------------------
C9_TotalFailureIsTerminal ==
    \A k \in DOMAIN oks :
        (Collected(k) /\ oks[k] = {}) =>
            /\ pc = "raised"
            /\ error = [type |-> "RuntimeError", round |-> k]
            /\ round_num = k
            /\ Len(oks) = k
            /\ inflight = {}
            /\ k \notin RoundNumbers(completed_rounds)
            /\ Len(rounds) = k - 1
            /\ synth_calls = <<>>
            /\ result = NoResult

C9_Witness ==
    /\ pc = "raised"
    /\ error.round = 2
    /\ Len(completed_rounds) = 1

\* ------------------------------------------------------------------------
\* C10 as stated: once round 1 is over, the warning has been logged exactly
\* when the panel has 3 or more entries and round 1 had fewer than 3 replies.
\* ------------------------------------------------------------------------
C10_WarnIffFewerThanThree ==
    Collected(1) =>
        ((warnings # <<>>) <=>
            (Len(providers) >= 3 /\ Cardinality(oks[1]) < 3))

\* ------------------------------------------------------------------------
\* C10 amended: the warning is logged exactly when the panel has 3 or more
\* entries and round 1 had 1 or 2 replies (with no reply at all the round
\* raises before the gate); it is logged once, for round 1 only, and reports
\* <replies>/<panel size>.
\* ------------------------------------------------------------------------
C10_WarnIffOneOrTwo ==
    /\ ~Collected(1) => warnings = <<>>
    /\ Collected(1) =>
          warnings =
             (IF Len(providers) >= 3 /\ Cardinality(oks[1]) \in 1..2
              THEN <<[round |-> 1, responded |-> Cardinality(oks[1]),
                      total |-> Len(providers)]>>
              ELSE <<>>)

C10_Witness ==
    /\ warnings = <<[round |-> 1, responded |-> 2, total |-> 4]>>
    /\ Len(rounds) = 2

\* ------------------------------------------------------------------------
\* C11 as stated: when run_debate has returned, it returned exactly
\* num_rounds Rounds, the i-th numbered i.
\* ------------------------------------------------------------------------
C11_ReturnsNumRounds ==
    pc \in {"synthesis", "done", "synthesis_failed"} =>
        /\ Len(rounds) = num_rounds
        /\ \A j \in DOMAIN rounds : rounds[j].number = j

\* ------------------------------------------------------------------------
\* C11 amended: when run_debate has returned, it returned num_rounds Rounds,
\* none when num_rounds is zero or negative; at every moment the i-th Round
\* of the list has number i; the configured ceiling max_rounds plays no part.
\* ------------------------------------------------------------------------
C11_ReturnsRangeOfRounds ==
    /\ \A j \in DOMAIN rounds : rounds[j].number = j
    /\ Len(rounds) <= (IF num_rounds > 0 THEN num_rounds ELSE 0)
    /\ pc \in {"synthesis", "done", "synthesis_failed"} =>
          Len(rounds) = (IF num_rounds > 0 THEN num_rounds ELSE 0)

C11_Witness ==
    /\ pc = "synthesis"
    /\ Len(rounds) = num_rounds
    /\ Len(rounds) > max_rounds
    /\ \E j \in DOMAIN rounds : Len(rounds[j].responses) < Len(providers)

\* ------------------------------------------------------------------------
\* C12: the callback has been invoked exactly once for every Round appended
\* so far, in round order, with that Round; it has run for round k before any
\* call of round k+1 is made, and not before round k's calls have all ended.
\* ------------------------------------------------------------------------
C12_CallbackOncePerRound ==
    /\ completed_rounds = rounds
    /\ \A c \in inflight : Len(completed_rounds) = c.round_number - 1
    /\ pc = "gather" => Len(completed_rounds) = round_num - 1
    /\ pc \in {"round_start", "synthesis", "done", "synthesis_failed"} =>
          Len(completed_rounds) = round_num

C12_Witness ==
    /\ pc = "gather"
    /\ round_num = 2
    /\ Len(completed_rounds) = 1
    /\ completed_rounds[1].number = 1
    /\ Len(completed_rounds[1].responses) = 1
    /\ inflight # {}

\* ------------------------------------------------------------------------
\* C13: in round 1 every prompt is the initial one; in every round k >= 2
\* all prompts sent carry one and the same block, whose parts are, in some
\* order, the replies of round k-1, each exactly once (the recipient's own
\* reply included), labelled in sequence; no text of an earlier round is in
\* it.  A retry sends the prompt of the first attempt again.
\* ------------------------------------------------------------------------
C13_CritiqueQuotesPreviousRound ==
    /\ \A c \in inflight : c.prompt = tasks[c.task].prompt
    /\ \A i \in DOMAIN tasks :
          IF round_num = 1
          THEN tasks[i].prompt = InitialPrompt(tasks[i].provider)
          ELSE LET prev == rounds[round_num - 1].responses
                   blk  == tasks[i].prompt.previous_responses_anonymized
               IN  /\ tasks[i].prompt.template = "critique"
                   /\ tasks[i].prompt.round = round_num
                   /\ \A j \in DOMAIN tasks :
                         tasks[j].prompt.previous_responses_anonymized = blk
                   /\ \E perm \in Shuffles(Len(prev)) :
                         blk = [x \in DOMAIN prev |->
                                  ProposalPart(Letters[x], prev[perm[x]].content)]
                   /\ \A x \in DOMAIN blk :
                         \A j \in 1..(round_num - 2) :
                             \A y \in DOMAIN rounds[j].responses :
                                 blk[x] # ProposalPart(Letters[x],
                                                       rounds[j].responses[y].content)

C13_Witness ==
    /\ pc = "gather"
    /\ round_num = 3
    /\ Len(rounds[1].responses) = 3
    /\ Len(rounds[2].responses) = 2
    /\ \E i \in DOMAIN tasks :
          /\ tasks[i].state = "attempt2"
          /\ tasks[i].provider = rounds[2].responses[2].provider
          /\ tasks[i].prompt.previous_responses_anonymized[1] =
                ProposalPart("A", rounds[2].responses[2].content)

\* ------------------------------------------------------------------------
\* C14: whatever the replies given to the anonymizer, no word of the block
\* is the name or the model identifier of a backend that wrote one of them.
\* ------------------------------------------------------------------------
C14_BlockNamesNoBackend ==
    applied.fn = "_anonymize_responses" =>
        \A x \in DOMAIN applied.value.block :
            \A i \in DOMAIN applied.responses :
                /\ applied.responses[i].provider \notin Range(applied.value.block[x])
                /\ applied.responses[i].model \notin Range(applied.value.block[x])

\* ------------------------------------------------------------------------
\* C15: anonymizing n replies yields n parts, the i-th labelled with the
\* i-th letter and holding the text of one reply, each reply used once; the
\* mapping has the first n letters as its keys and sends the i-th letter to
\* the backend of the reply in the i-th part, so that its values are the
\* backends of the n replies.
\* ------------------------------------------------------------------------
C15_LabelsInSequence ==
    applied.fn = "_anonymize_responses" =>
        LET rs  == applied.responses
            n   == Len(rs)
            blk == applied.value.block
            map == applied.value.mapping
        IN  /\ Len(blk) = n
            /\ \A i \in 1..n : SubSeq(blk[i], 1, 3) = <<"--- Proposal", Letters[i], "---">>
            /\ DOMAIN map = {Letters[i] : i \in 1..n}
            /\ Cardinality(DOMAIN map) = n
            /\ \E q \in Shuffles(n) :
                  \A i \in 1..n :
                      /\ SubSeq(blk[i], 4, Len(blk[i])) = rs[q[i]].content
                      /\ map[Letters[i]] = rs[q[i]].provider
            /\ {map[l] : l \in DOMAIN map} = {rs[i].provider : i \in 1..n}

C15_Witness ==
    /\ applied.fn = "_anonymize_responses"
    /\ Len(applied.responses) = 2
    /\ applied.responses[1].provider = "claude"
    /\ applied.responses[2].provider = "gemini"
    /\ applied.value.mapping = [l \in {"A", "B"} |-> IF l = "A" THEN "gemini" ELSE "claude"]
    /\ applied.value.block[1] = <<"--- Proposal", "A", "---", "yes">>

\* ------------------------------------------------------------------------
\* C16: with a non-empty --models value the panel has one name per
\* comma-separated field, in the order of the fields, each without its
\* surrounding blanks, and the mode is custom whatever --full says; without
\* one the panel is the configured full panel with mode full when --full is
\* set, the configured default panel with mode default otherwise.
\* ------------------------------------------------------------------------
C16_DeterminePanel ==
    applied.fn = "_determine_panel" =>
        LET m      == applied.models_arg
            v      == applied.value
            commas == {j \in DOMAIN m : m[j] = ","}
            \* where field i starts and ends: after comma i-1, before comma i
            lo(i)  == IF i = 1 THEN 0
                      ELSE CHOOSE c \in commas :
                               Cardinality({d \in commas : d <= c}) = i - 1
            hi(i)  == IF i = Cardinality(commas) + 1 THEN Len(m) + 1
                      ELSE CHOOSE c \in commas :
                               Cardinality({d \in commas : d <= c}) = i
            words(i) == {j \in DOMAIN m : lo(i) < j /\ j < hi(i) /\ m[j] # " "}
        IN  IF m # <<>>
            THEN /\ v.mode = "custom"
                 /\ Len(v.names) = Cardinality(commas) + 1
                 /\ \A i \in DOMAIN v.names :
                       /\ v.names[i] # " "
                       /\ words(i) = {} => v.names[i] = ""
                       /\ \A j \in words(i) : words(i) = {j} => v.names[i] = m[j]
            ELSE IF applied.full_flag
            THEN v = [names |-> full_panel, mode |-> "full"]
            ELSE v = [names |-> default_panel, mode |-> "default"]

C16_Witness ==
    /\ applied.fn = "_determine_panel"
    /\ applied.full_flag
    /\ applied.models_arg = <<" ", "gemini", " ", ",", "claude">>
    /\ applied.value = [names |-> <<"gemini", "claude">>, mode |-> "custom"]

\* ------------------------------------------------------------------------
\* C17: the panel comes back unchanged when the synthesizer is not in it;
\* when it is, it comes back without the synthesizer, the others in their
\* order, exactly when at least 2 of the other entries are available
\* backends, and unchanged otherwise.  So a panel that was changed has at
\* least 2 available entries.
\* ------------------------------------------------------------------------
C17_ExcludeSynthesizer ==
    applied.fn = "_exclude_synthesizer_from_panel" =>
        LET p      == applied.panel_names
            n      == applied.synthesizer_name
            av     == Range(applied.all_providers)
            v      == applied.value
            others == SelectSeq(p, LAMBDA x : x # n)
            k      == Cardinality({i \in DOMAIN others : others[i] \in av})
        IN  /\ n \notin Range(p) => v = p
            /\ (n \in Range(p) /\ k >= 2) => v = others
            /\ (n \in Range(p) /\ k < 2) => v = p
            /\ v # p => Cardinality({i \in DOMAIN v : v[i] \in av}) >= 2

C17_Witness ==
    /\ applied.fn = "_exclude_synthesizer_from_panel"
    /\ applied.panel_names = <<"gemini", "claude", "openai">>
    /\ applied.synthesizer_name = "claude"
    /\ applied.all_providers = <<"gemini", "openai">>
    /\ applied.value = <<"gemini", "openai">>

\* ------------------------------------------------------------------------
\* C18: the selector answers is_participant = FALSE exactly when some
\* available backend is outside the panel, and then returns a backend outside
\* the panel; it answers TRUE exactly when every available backend is in the
\* panel.  What it returns is always an available backend.
\* ------------------------------------------------------------------------
C18_ParticipantIffNoneOutside ==
    applied.fn = "_pick_non_participant_synthesizer" =>
        LET av      == Range(applied.all_providers)
            panel   == Range(applied.panel_names)
            v       == applied.value
        IN  /\ (v.is_participant = FALSE) <=> (av \ panel # {})
            /\ (v.is_participant = FALSE) => v.provider \notin panel
            /\ (v.is_participant = TRUE) <=> (av \subseteq panel)
            /\ v.provider \in av

C18_Witness ==
    /\ applied.fn = "_pick_non_participant_synthesizer"
    /\ applied.all_providers = <<"claude", "gemini", "openai">>
    /\ applied.panel_names = <<"claude", "gemini">>
    /\ applied.preferred = "claude"
    /\ applied.value = [provider |-> "openai", is_participant |-> FALSE]

\* ------------------------------------------------------------------------
\* C19: the selector returns the preferred backend when it is available and
\* outside the panel; otherwise, when some available backend is outside the
\* panel, the first of them in the order of the available backends; when
\* none is, the preferred backend if it is available, else the first
\* available backend.
\* ------------------------------------------------------------------------
C19_PreferredThenFirst ==
    applied.fn = "_pick_non_participant_synthesizer" =>
        LET avs     == applied.all_providers
            panel   == Range(applied.panel_names)
            pref    == applied.preferred
            outside == {i \in DOMAIN avs : avs[i] \notin panel}
            v       == applied.value
        IN  IF outside # {}
            THEN IF \E i \in outside : avs[i] = pref
                 THEN v.provider = pref
                 ELSE v.provider = avs[CHOOSE i \in outside : \A j \in outside : i <= j]
            ELSE IF \E i \in DOMAIN avs : avs[i] = pref
                 THEN v.provider = pref
                 ELSE v.provider = avs[1]

C19_Witness ==
    /\ applied.fn = "_pick_non_participant_synthesizer"
    /\ applied.all_providers = <<"claude", "gemini", "openai", "grok">>
    /\ applied.panel_names = <<"claude", "gemini">>
    /\ applied.preferred = "grok"
    /\ applied.value = [provider |-> "grok", is_participant |-> FALSE]

\* ------------------------------------------------------------------------
\* C20: once selection has run, the run has ended with the configuration
\* error exactly when fewer than 2 entries of the resolved panel (after
\* synthesizer exclusion) are available backends; a run that ended so has
\* dispatched no round, called no backend, made no synthesis call, touched no
\* timeout and produced no result.
\* ------------------------------------------------------------------------
C20_TooFewDebatersExits ==
    pc # "start" =>
        LET usable == {i \in DOMAIN panel_names : panel_names[i] \in Range(all_providers)}
        IN  /\ (Cardinality(usable) < 2) <=> (pc = "exit")
            /\ pc = "exit" =>
                  /\ error = [type |-> "SystemExit", round |-> 0]
                  /\ round_num = 0
                  /\ tasks = <<>>
                  /\ inflight = {}
                  /\ oks = <<>>
                  /\ rounds = <<>>
                  /\ completed_rounds = <<>>
                  /\ timeout_sec = ConfigTimeout
                  /\ synthesizer = None
                  /\ synth_calls = <<>>
                  /\ result = NoResult

C20_Witness ==
    /\ pc = "exit"
    /\ panel_mode = "full"
    /\ panel_names = full_panel
    /\ providers = <<"openai">>
    /\ num_rounds = 2

\* ------------------------------------------------------------------------
\* C21: synthesize makes exactly one backend call, to the synthesizer, with
\* round index (number of Rounds of the debate) + 1; no other backend is
\* called during or after it, and no synthesis call exists before it.
\* ------------------------------------------------------------------------
C21_OneSynthesisCall ==
    /\ pc \in {"done", "synthesis_failed"} =>
          /\ Len(synth_calls) = 1
          /\ synth_calls[1].provider = synthesizer
          /\ synth_calls[1].round_number = Len(rounds) + 1
          /\ inflight = {}
    /\ pc \notin {"done", "synthesis_failed"} => synth_calls = <<>>

C21_Witness ==
    /\ pc = "done"
    /\ Len(rounds) = 2
    /\ synth_calls = <<[provider |-> synthesizer,
                        prompt |-> SynthesisPrompt(rounds),
                        round_number |-> 3,
                        returned |-> [type |-> "ModelResponse",
                                      content |-> <<"consensus">>]]>>

\* ------------------------------------------------------------------------
\* C22: a DebateResult exists exactly when the single synthesis call came
\* back with a reply of non-empty content; a call that raised (timeout or
\* not) or a reply without content ends the run with an error, without a
\* DebateResult and without a second call.
\* ------------------------------------------------------------------------
C22_ResultIffNonEmptyReply ==
    /\ Len(synth_calls) <= 1
    /\ (result # NoResult) <=>
          \E j \in DOMAIN synth_calls :
              /\ synth_calls[j].returned.type = "ModelResponse"
              /\ synth_calls[j].returned.content # <<>>
    /\ result # NoResult =>
          /\ pc = "done"
          /\ result.synthesis = synth_calls[1].returned.content
          /\ error = NoError
    /\ (synth_calls # <<>> /\ result = NoResult) =>
          /\ pc = "synthesis_failed"
          /\ error.type \in {"ProviderError", "RuntimeError", "Exception"}
          /\ error.type = "RuntimeError" <=> synth_calls[1].returned.type = "ModelResponse"

C22_Witness ==
    /\ pc = "synthesis_failed"
    /\ result = NoResult
    /\ synth_calls # <<>>
    /\ synth_calls[1].returned = [type |-> "ModelResponse", content |-> <<>>]
    /\ rounds # <<>>

\* ------------------------------------------------------------------------
\* C23: the transcript handed to the synthesizer holds every Round in
\* increasing order, and under each round header every reply of that Round
\* exactly once, in the order of Round.responses, under its real backend
\* and model name with its text unchanged.
\* ------------------------------------------------------------------------
C23_TranscriptIsFullHistory ==
    \A c \in Range(synth_calls) :
        LET T == c.prompt.full_transcript
            n == Len(rounds)
            \* where the section of round j starts
            at[j \in 1..(n + 1)] ==
                IF j = 1 THEN 1 ELSE at[j - 1] + Len(rounds[j - 1].responses) + 2
        IN  /\ Len(T) = at[n + 1] - 1
            /\ c.prompt.rounds = n
            /\ \A j \in 1..n :
                  /\ T[at[j]] = <<"### Round", rounds[j].number>>
                  /\ j > 1 => rounds[j - 1].number < rounds[j].number
                  /\ \A i \in DOMAIN rounds[j].responses :
                        LET r == rounds[j].responses[i]
                            e == T[at[j] + i]
                        IN  /\ e[2] = r.provider
                            /\ e[3] = r.model
                            /\ SubSeq(e, 5, Len(e)) = r.content
                  /\ T[at[j] + Len(rounds[j].responses) + 1] = <<>>

C23_Witness ==
    /\ synth_calls # <<>>
    /\ Len(rounds) = 2
    /\ Len(rounds[1].responses) < Len(providers)
    /\ Len(rounds[2].responses) >= 2
    /\ Len(synth_calls[1].prompt.full_transcript) =
          Len(rounds[1].responses) + Len(rounds[2].responses) + 4

\* ------------------------------------------------------------------------
\* C24: the DebateResult of a completed run records the resolved panel mode,
\* the name of the backend that performed the synthesis call and the
\* selector's is_participant decision.  As stated, the flag is true exactly
\* when that backend was dispatched as a debater in a round of the run.
\* ------------------------------------------------------------------------
C24_FlagIffDispatchedInARound ==
    result # NoResult =>
        (result.synthesizer_is_participant <=>
            (oks # <<>> /\ result.synthesizer \in Range(providers)))

\* C24, amended: the flag is true exactly when the backend that performed
\* synthesis is in the panel handed to run_debate, which, when at least one
\* round is executed, is the same as having been dispatched in the rounds.
C24_FlagIffInPanel ==
    result # NoResult =>
        /\ result.panel_mode = panel_mode
        /\ result.panel_mode \in {"default", "full", "custom"}
        /\ result.synthesizer = synth_calls[1].provider
        /\ result.synthesizer \in Range(all_providers)
        \* the selector's decision: no available backend is outside the panel
        /\ result.synthesizer_is_participant <=>
              (\A b \in Range(all_providers) : b \in Range(panel_names))
        /\ result.synthesizer_is_participant <=> result.synthesizer \in Range(providers)
        /\ oks # <<>> =>
              (result.synthesizer_is_participant <=>
                  (oks # <<>> /\ result.synthesizer \in Range(providers)))

C24_Witness ==
    /\ result # NoResult
    /\ result.synthesizer_is_participant
    /\ result.panel_mode = "custom"
    /\ Len(oks) = 2
    /\ result.synthesizer \in Range(providers)

\* ------------------------------------------------------------------------
\* C25: no exception of a backend call reaches the round: a finished call
\* holds a reply or a ProviderError value that carries the name of its
\* backend, whatever fault ended the first attempt or the retry, the only
\* error a round raises is its own RuntimeError, and a retry is only ever
\* started after a ProviderError, never after an exception of another class.
\* ------------------------------------------------------------------------
C25_FaultsSurfaceAsFailure ==
    /\ pc = "raised" => error.type = "RuntimeError"
    /\ \A i \in DOMAIN tasks :
          /\ tasks[i].state = "done" =>
                /\ tasks[i].result.type \in {"ModelResponse", "ProviderError"}
                /\ tasks[i].result.type = "ProviderError" =>
                      tasks[i].result.provider_name = tasks[i].provider
                /\ tasks[i].result.type = "ModelResponse" =>
                      tasks[i].result.provider = tasks[i].provider
          /\ tasks[i].state # "done" => tasks[i].result = Pending
          /\ tasks[i].state = "attempt2" => first[i] \in {"timeout", "error"}
    /\ \A j \in DOMAIN rounds :
          \A x \in DOMAIN rounds[j].responses :
              rounds[j].responses[x].type = "ModelResponse"

C25_Witness ==
    /\ pc = "gather"
    /\ AllSettled
    /\ \E i, j \in DOMAIN tasks :
          /\ tasks[i].result = Failure(tasks[i].provider)
          /\ tasks[j].result.type = "ModelResponse"
    /\ round_num = 2

\* ------------------------------------------------------------------------
\* C26: a Round is never changed after it is created: no step reorders or
\* alters the replies of a Round that exists (building the critique block of
\* the next round included), later rounds leave the earlier ones as they
\* were, and synthesize, whether it succeeds or fails, leaves the list of
\* Rounds and the caller's copy of it as they were.
\* ------------------------------------------------------------------------
C26_RoundsNeverChange ==
    [][/\ \A j \in DOMAIN rounds : j \in DOMAIN rounds' /\ rounds'[j] = rounds[j]
       /\ \A j \in DOMAIN completed_rounds :
             j \in DOMAIN completed_rounds' /\ completed_rounds'[j] = completed_rounds[j]
       /\ pc = "synthesis" =>
             /\ rounds' = rounds
             /\ completed_rounds' = completed_rounds
             /\ pc' = "done" => result'.rounds = rounds
       /\ pc \in {"done", "synthesis_failed"} => rounds' = rounds]_vars

\* round 2 is in flight and its critique block starts with the second reply
\* of round 1: the shuffle reordered its list
C26_Witness ==
    /\ pc = "gather"
    /\ round_num = 2
    /\ Len(rounds) = 1
    /\ Len(rounds[1].responses) >= 2
    /\ \E i \in DOMAIN tasks :
          tasks[i].prompt.previous_responses_anonymized[1] =
              ProposalPart("A", rounds[1].responses[2].content)

\* ------------------------------------------------------------------------
\* C29: every executed round creates one call per entry of the panel handed
\* to run_debate, the same panel in every round: a backend that failed in
\* round k, and so is absent from the replies of Round k, is called again in
\* round k+1, and nothing after selection changes the panel.
\* ------------------------------------------------------------------------
C29_SamePanelEveryRound ==
    /\ [](pc = "gather" =>
            /\ Len(tasks) = Len(providers)
            /\ \A i \in DOMAIN tasks :
                  /\ tasks[i].provider = providers[i]
                  /\ tasks[i].state # "done" =>
                        \E c \in inflight :
                            /\ c.task = i
                            /\ c.provider = providers[i]
                            /\ c.round_number = round_num)
    /\ [][pc # "start" => providers' = providers]_vars

\* round 2 is in flight with a call to a backend that has no reply in Round 1
C29_Witness ==
    /\ pc = "gather"
    /\ round_num = 2
    /\ Len(rounds) = 1
    /\ \E i \in DOMAIN tasks :
          /\ tasks[i].state = "attempt1"
          /\ \A x \in DOMAIN rounds[1].responses :
                rounds[1].responses[x].provider # tasks[i].provider
          /\ \E c \in inflight : c.task = i /\ c.round_number = 2

\* ------------------------------------------------------------------------
\* C28: in a run that passed the 2-debater check, whenever the panel without
\* the finally chosen synthesizer would still hold at least 2 available
\* debaters, the chosen synthesizer is no participant: its flag is false and
\* it is in no round's panel.
\* ------------------------------------------------------------------------
C28_SynthesizerOutWhenPossible ==
    (pc \notin {"start", "exit"} /\ Len(RemoveAll(providers, synthesizer)) >= 2) =>
        /\ is_participant = FALSE
        /\ synthesizer \notin Range(providers)

\* ------------------------------------------------------------------------
\* C27: when every backend call settles, every round in flight completes (a
\* Round is created or the round raises) and run_debate returns or raises;
\* a run over a panel of n entries has made at most 2 * n generate calls per
\* round started, and starts no more rounds than numRounds.
\* ------------------------------------------------------------------------
C27_TerminatesWithinCallBudget ==
    /\ [](/\ generate_calls <= 2 * Len(providers) * round_num
          /\ generate_calls >= Len(providers) * round_num
          /\ round_num <= (IF num_rounds > 0 THEN num_rounds ELSE 0))
    /\ \A k \in 1..(MaxRounds + 1) :
          (pc = "gather" /\ round_num = k) ~>
              \/ pc = "raised" /\ error.round = k
              \/ pc # "gather" /\ Len(rounds) >= 1 /\ rounds[Len(rounds)].number = k
    /\ (pc = "round_start") ~> (pc \in {"synthesis", "raised"})

C27_Witness ==
    /\ pc = "synthesis"
    /\ num_rounds = 2
    /\ Len(providers) = 2
    /\ generate_calls = 2 * 2 * 2

\* ------------------------------------------------------------------------
\* C30: in inbox mode every scanned file is processed in scan order and is
\* archived exactly once, whatever made its run fail, and a failure on one
\* file does not keep the remaining files from being processed: when
\* _run_inbox is over, the archive holds the scanned files, one entry each,
\* in order, and while it runs the archive holds the files before the
\* current one.
\* ------------------------------------------------------------------------
C30_EveryFileArchivedOnce ==
    /\ pc \in {"inbox_done", "inbox_aborted", "inbox_crashed"} =>
          /\ Len(archive) = Len(files)
          /\ \A j \in DOMAIN files : archive[j].name = files[j]
    /\ pc \notin {"inbox_loop", "inbox_done", "inbox_aborted", "inbox_crashed", "functions"} =>
          (file_idx > 0 => Len(archive) = file_idx - 1)

====
